---- MODULE Spec2Model ----
(***************************************************************************)
(* The sequential-thinking session store of src/mcp/sequentialthinking.go: *)
(* SessionStore (a map guarded by a sync.RWMutex), its optimistic update   *)
(* CompareAndSwap, and the tool handlers StartThinking and                 *)
(* ContinueThinking (append, revise, branch) that run on it from           *)
(* concurrent goroutines, and the reads Session, Sessions, SessionSnapshot *)
(* and SessionsSnapshot with what they hand to their callers: the stored   *)
(* object or a copy of it.                                                 *)
(*                                                                         *)
(* Time stamps (Created, LastActivity) are written by the code but read by *)
(* none of it; they are left out of the records.  Thought.ParentIndex is   *)
(* never assigned by the code and is left out as well.                     *)
(***************************************************************************)
EXTENDS Integers, Sequences, FiniteSets, TLC

VARIABLES
    sessions,       \* SessionStore.sessions: map from session ID to session
    mu,             \* SessionStore.mu: [w: holder of the write lock, r: read-lock holders]
    pc,             \* per goroutine: where it stands in its handler
    args,           \* per goroutine: params.Arguments of the running call
    oldVersion,     \* per goroutine: CompareAndSwap's oldVersion
    updated,        \* per goroutine: CompareAndSwap's sessionCopy / updated (one object)
    branchID,       \* per goroutine: ContinueThinking's branchID
    branchSession,  \* per goroutine: ContinueThinking's branchSession
    thoughtID,      \* per goroutine: ContinueThinking's thoughtID
    progress,       \* per goroutine: ContinueThinking's progress
    statusMsg,      \* per goroutine: ContinueThinking's statusMsg
    runs,           \* per goroutine: times updateFunc ran in the running call
    result,         \* per goroutine: what the last call returned
    calls,          \* number of tool calls still to come
    bases,          \* history: <<id, base version>> of every CompareAndSwap commit
    sessions0,      \* history: the store when the run began
    issued,         \* history: contents of the appends a sequential caller completed
    held,           \* per goroutine: the session its last read of the store handed it
    alias           \* which places hold the same objects: <<place, place, part>>

vars == <<sessions, mu, pc, args, oldVersion, updated, branchID, branchSession,
          thoughtID, progress, statusMsg, runs, result, calls, bases, sessions0,
          issued, held, alias>>

-----------------------------------------------------------------------------
(* Bounds of the model *)

\* tool calls issued in one run of the server
MaxCalls == 3

\* append calls fired at once at one session
StormCalls == 2

\* tool calls one sequential caller issues
SeqCalls == 4

\* attempts of one CompareAndSwap call that runs counts; further ones leave it
MaxRuns == 3

\* goroutines serving tool calls
Procs == {1, 2}

-----------------------------------------------------------------------------
(* Values *)

Nil == "nil"

NoSession == [ID |-> Nil]

NoArgs == [op |-> Nil]

NoResult == [kind |-> Nil]

NoHeld == [op |-> Nil]

\* StartThinking's default for EstimatedSteps == 0
DefaultEstimate == 5

\* an ID standing for the 26 characters randText draws
RandomID == "RANDOMTEXT"

ErrNotFound == "not found"
ErrInvalidStep == "invalid step number"
NoErr == ""

\* the inputs the callers draw from; a pointer argument (*bool, *int) is
\* <<>> when nil and <<v>> when set
StartEstimates == {0, 3}
ReviseSteps == {-1, 0, 1, 2}

StartArgs ==
    { [op |-> "start", SessionID |-> "s1", Problem |-> "P", EstimatedSteps |-> e]
        : e \in StartEstimates }

ContinueArg(id, thought, nextNeeded, reviseStep, createBranch, estimatedTotal) ==
    [op |-> "continue", SessionID |-> id, Thought |-> thought,
     NextNeeded |-> nextNeeded, ReviseStep |-> reviseStep,
     CreateBranch |-> createBranch, EstimatedTotal |-> estimatedTotal]

AppendArgs ==
    { ContinueArg("s1", "a", <<>>, <<>>, FALSE, 0),
      ContinueArg("s1", "b", <<>>, <<>>, FALSE, 0),
      ContinueArg("s1", "a", <<FALSE>>, <<>>, FALSE, 0),
      ContinueArg("s1", "b", <<TRUE>>, <<>>, FALSE, 7),
      ContinueArg("s1_branch_1", "a", <<>>, <<>>, FALSE, 0) }

ReviseArgs == { ContinueArg("s1", "c", <<>>, <<k>>, FALSE, 0) : k \in ReviseSteps }

BranchArgs == { ContinueArg("s1", "a", <<>>, <<>>, TRUE, 0) }

ContinueArgs == AppendArgs \cup ReviseArgs \cup BranchArgs

\* reads of the store by its callers; "s2" is an id no call stores
ReadArg(op, id) == [op |-> op, SessionID |-> id]

ReadArgs ==
    { ReadArg(op, id) : op \in {"Session", "SessionSnapshot"}, id \in {"s1", "s2"} }
        \cup { ReadArg(op, "") : op \in {"Sessions", "SessionsSnapshot"} }

\* a selection that looks at createBranch before reviseStep
KindBranchFirst(a) ==
    IF a.op # "continue" THEN a.op
    ELSE IF a.CreateBranch THEN "branch"
    ELSE IF a.ReviseStep # <<>> THEN "revise"
    ELSE "append"

\* which of the three sub-behaviours ContinueThinking selects
Kind(a) ==
    IF a.op # "continue" THEN a.op
    ELSE IF a.ReviseStep # <<>> THEN "revise"
    ELSE IF a.CreateBranch THEN "branch"
    ELSE "append"

-----------------------------------------------------------------------------
(* Copies *)

deepCopyThoughts(thoughts) ==
    [i \in 1..Len(thoughts) |->
        [Index |-> thoughts[i].Index, Content |-> thoughts[i].Content,
         Revised |-> thoughts[i].Revised]]

clone(s) ==
    [ID |-> s.ID, Problem |-> s.Problem, Thoughts |-> deepCopyThoughts(s.Thoughts),
     CurrentThought |-> s.CurrentThought, EstimatedTotal |-> s.EstimatedTotal,
     Status |-> s.Status, Branches |-> [i \in 1..Len(s.Branches) |-> s.Branches[i]],
     Version |-> s.Version]

-----------------------------------------------------------------------------
(* Objects.  The records above are the values of ThinkingSession objects;   *)
(* the code hands pointers to them around.  Two places that hold a          *)
(* *ThinkingSession can hold the same object ("struct"), or objects whose   *)
(* Thoughts point to the same Thought objects ("thoughts") or whose         *)
(* Branches have the same backing array ("branches").  alias holds          *)
(* <<c, d, part>> when places c and d have that part in common.             *)

\* the places: s.sessions[id], CompareAndSwap's sessionCopy of goroutine p,
\* its branchSession, and the session a read of the store handed to p
Stored(id) == [kind |-> "sessions", at |-> id]

Copy(p) == [kind |-> "sessionCopy", at |-> ToString(p)]

Child(p) == [kind |-> "branchSession", at |-> ToString(p)]

Held(p) == [kind |-> "held", at |-> ToString(p)]

\* "return session": the pointer the map holds, so the very object
PointerCopy == {"struct", "thoughts", "branches"}

\* "sessionCopy := *s": a new struct whose slices are those of s
StructCopy == {"thoughts", "branches"}

\* a copy of the slice that keeps the pointers to the Thought objects
deepCopyThoughtsOfPointers == {"thoughts"}

\* deepCopyThoughts: "t2 := *t; thoughtsCopy[i] = &t2", a new Thought for each
deepCopyThoughtsShared == {}

\* slices.Clone: a new backing array
slicesCloneShared == {}

\* a clone that stops after "sessionCopy := *s"
cloneSharedOfStruct == {"thoughts", "branches"}

\* clone: the struct copy with Thoughts and Branches replaced by their copies
cloneShared ==
    (StructCopy \ {"thoughts", "branches"})
        \cup deepCopyThoughtsShared \cup slicesCloneShared

Linked(al, c, part) == { t[2] : t \in { u \in al : u[1] = c /\ u[3] = part } }

\* place c is given up or overwritten
Drop(al, c) == { t \in al : t[1] # c /\ t[2] # c }

\* place new receives an object made from the one at src that has these
\* parts in common with it, and so with all that has them in common with src
Link(al, new, src, parts) ==
    LET rest == Drop(al, new)
        to(part) == ({src} \cup Linked(rest, src, part)) \ {new}
    IN  rest \cup UNION { UNION { {<<new, d, part>>, <<d, new, part>>} : d \in to(part) }
                            : part \in parts }

\* the pointer at place from is stored at place to, and from is given up
Move(al, from, to) ==
    { <<IF t[1] = from THEN to ELSE t[1], IF t[2] = from THEN to ELSE t[2], t[3]>>
        : t \in Drop(al, to) }

\* a write through a pointer: to thought k, to element k of Branches, an
\* append to Thoughts, or to the Status field
Edit(kind, k, text) == [kind |-> kind, k |-> k, text |-> text]

\* the revise transform's "session.Thoughts[stepIndex].Content = ...; .Revised = true"
ReviseEdit(a) == Edit("thought", a.ReviseStep[1], a.Thought)

PartOf(e) ==
    CASE e.kind = "thought" -> "thoughts"
      [] e.kind = "branch" -> "branches"
      [] OTHER -> "struct"

Apply(e, s) ==
    CASE e.kind = "thought" ->
            IF e.k \in 1..Len(s.Thoughts)
            THEN [s EXCEPT !.Thoughts[e.k].Content = e.text,
                           !.Thoughts[e.k].Revised = TRUE]
            ELSE s
      [] e.kind = "branch" ->
            IF e.k \in 1..Len(s.Branches)
            THEN [s EXCEPT !.Branches[e.k] = e.text]
            ELSE s
      [] e.kind = "append" ->
            [s EXCEPT !.Thoughts =
                Append(@, [Index |-> Len(@) + 1, Content |-> e.text,
                           Revised |-> FALSE])]
      [] OTHER -> [s EXCEPT !.Status = e.text]

\* the places whose object a write at place c changes
Hit(c, e) == {c} \cup Linked(alias, c, PartOf(e))

StoreAfter(c, e) ==
    [id \in DOMAIN sessions |->
        IF Stored(id) \in Hit(c, e) THEN Apply(e, sessions[id]) ELSE sessions[id]]

CopiesAfter(c, e) ==
    [q \in DOMAIN updated |->
        IF Copy(q) \in Hit(c, e) /\ updated[q].ID # Nil
        THEN Apply(e, updated[q]) ELSE updated[q]]

ChildrenAfter(c, e) ==
    [q \in DOMAIN branchSession |->
        IF Child(q) \in Hit(c, e) /\ branchSession[q].ID # Nil
        THEN Apply(e, branchSession[q]) ELSE branchSession[q]]

HeldAfter(c, e) ==
    [q \in DOMAIN held |->
        IF Held(q) \in Hit(c, e) /\ held[q].op # Nil /\ held[q].session.ID # Nil
        THEN [held[q] EXCEPT !.session = Apply(e, @)] ELSE held[q]]

-----------------------------------------------------------------------------
(* The session StartThinking builds *)

NewSession(a, rnd) ==
    LET sessionID == IF a.SessionID = "" THEN rnd ELSE a.SessionID
        estimatedSteps == IF a.EstimatedSteps = 0 THEN DefaultEstimate
                          ELSE a.EstimatedSteps
    IN  [ID |-> sessionID, Problem |-> a.Problem, Thoughts |-> <<>>,
         CurrentThought |-> 0, EstimatedTotal |-> estimatedSteps,
         Status |-> "active", Branches |-> <<>>, Version |-> 0]

-----------------------------------------------------------------------------
(* The transforms ContinueThinking hands to CompareAndSwap.  Each yields    *)
(* the error, the updated session and the outer variables it assigns.      *)

InvalidStep(a, session) ==
    LET stepIndex == a.ReviseStep[1] - 1
    IN  stepIndex < 0 \/ stepIndex >= Len(session.Thoughts)

\* a revise that takes a step out of range for a revise of nothing
ReviseTransformLenient(a, session) ==
    IF InvalidStep(a, session)
    THEN [err |-> NoErr, session |-> session]
    ELSE [err |-> NoErr,
          session |-> [session EXCEPT
                          !.Thoughts[a.ReviseStep[1]].Content = a.Thought,
                          !.Thoughts[a.ReviseStep[1]].Revised = TRUE]]

ReviseTransform(a, session) ==
    IF InvalidStep(a, session)
    THEN [err |-> ErrInvalidStep, session |-> NoSession]
    ELSE [err |-> NoErr,
          session |-> [session EXCEPT
                          !.Thoughts[a.ReviseStep[1]].Content = a.Thought,
                          !.Thoughts[a.ReviseStep[1]].Revised = TRUE]]

\* a branch id numbered by the thoughts of the parent
BranchNameByThoughts(a, session) ==
    a.SessionID \o "_branch_" \o ToString(Len(session.Thoughts) + 1)

BranchName(a, session) ==
    a.SessionID \o "_branch_" \o ToString(Len(session.Branches) + 1)

\* a branch child made as a copy of the parent under the branch id
BranchChildOfParent(a, session) ==
    [session EXCEPT !.ID = BranchName(a, session),
                    !.Problem = session.Problem \o " (Alternative branch)"]

\* a branch child that starts without the parent's thoughts
BranchChildUnseeded(a, session) ==
    [ID |-> BranchName(a, session),
     Problem |-> session.Problem \o " (Alternative branch)",
     Thoughts |-> <<>>,
     CurrentThought |-> 0,
     EstimatedTotal |-> session.EstimatedTotal,
     Status |-> "active", Branches |-> <<>>, Version |-> 0]

BranchChild(a, session) ==
    [ID |-> BranchName(a, session),
     Problem |-> session.Problem \o " (Alternative branch)",
     Thoughts |-> deepCopyThoughts(session.Thoughts),
     CurrentThought |-> Len(session.Thoughts),
     EstimatedTotal |-> session.EstimatedTotal,
     Status |-> "active", Branches |-> <<>>, Version |-> 0]

BranchTransform(a, session) ==
    [err |-> NoErr,
     session |-> [session EXCEPT
                     !.Branches = Append(session.Branches, BranchName(a, session))],
     branchID |-> BranchName(a, session),
     branchSession |-> BranchChild(a, session)]

\* a thought numbered from 0
NewThoughtFromZero(a, session) ==
    [Index |-> Len(session.Thoughts), Content |-> a.Thought, Revised |-> FALSE]

NewThought(a, session) ==
    [Index |-> Len(session.Thoughts) + 1, Content |-> a.Thought, Revised |-> FALSE]

\* an append that completes the session whenever NextNeeded is given
AppendSessionCompletesOnAny(a, session) ==
    LET thought == NewThought(a, session)
    IN  [session EXCEPT
            !.Thoughts = Append(session.Thoughts, thought),
            !.CurrentThought = thought.Index,
            !.EstimatedTotal = IF a.EstimatedTotal > 0 THEN a.EstimatedTotal ELSE @,
            !.Status = IF a.NextNeeded # <<>> THEN "completed" ELSE @]

\* an append that leaves CurrentThought as it is
AppendSessionKeepsCurrent(a, session) ==
    LET thought == NewThought(a, session)
    IN  [session EXCEPT
            !.Thoughts = Append(session.Thoughts, thought),
            !.EstimatedTotal = IF a.EstimatedTotal > 0 THEN a.EstimatedTotal ELSE @,
            !.Status = IF a.NextNeeded = <<FALSE>> THEN "completed" ELSE @]

\* an append that takes every estimate of the caller, an absent one too
AppendSessionTakesEstimate(a, session) ==
    LET thought == NewThought(a, session)
    IN  [session EXCEPT
            !.Thoughts = Append(session.Thoughts, thought),
            !.CurrentThought = thought.Index,
            !.EstimatedTotal = a.EstimatedTotal,
            !.Status = IF a.NextNeeded = <<FALSE>> THEN "completed" ELSE @]

AppendSession(a, session) ==
    LET thought == NewThought(a, session)
    IN  [session EXCEPT
            !.Thoughts = Append(session.Thoughts, thought),
            !.CurrentThought = thought.Index,
            !.EstimatedTotal = IF a.EstimatedTotal > 0 THEN a.EstimatedTotal ELSE @,
            !.Status = IF a.NextNeeded = <<FALSE>> THEN "completed" ELSE @]

\* an append that refuses a completed session
AppendTransformOnActive(a, session) ==
    LET s == AppendSession(a, session)
    IN  IF session.Status = "completed"
        THEN [err |-> "session completed", session |-> NoSession]
        ELSE [err |-> NoErr,
              session |-> s,
              thoughtID |-> Len(session.Thoughts) + 1,
              progress |-> "Step " \o ToString(Len(session.Thoughts) + 1)
                           \o (IF s.EstimatedTotal > 0
                               THEN " of ~" \o ToString(s.EstimatedTotal) ELSE ""),
              statusMsg |-> IF s.Status = "completed" THEN "completed" ELSE "ready"]

AppendTransform(a, session) ==
    LET s == AppendSession(a, session)
    IN  [err |-> NoErr,
         session |-> s,
         thoughtID |-> Len(session.Thoughts) + 1,
         progress |-> "Step " \o ToString(Len(session.Thoughts) + 1)
                      \o (IF s.EstimatedTotal > 0
                          THEN " of ~" \o ToString(s.EstimatedTotal) ELSE ""),
         statusMsg |-> IF s.Status = "completed" THEN "completed" ELSE "ready"]

Transform(a, session) ==
    CASE Kind(a) = "revise" -> ReviseTransform(a, session)
      [] Kind(a) = "branch" -> BranchTransform(a, session)
      [] OTHER -> AppendTransform(a, session)

-----------------------------------------------------------------------------
(* The store *)

Exists(id) == id \in DOMAIN sessions

\* a lookup that makes up an empty session for an ID the map does not hold
LookupOrCreate(id) ==
    IF id \in DOMAIN sessions
    THEN [exists |-> TRUE, session |-> sessions[id]]
    ELSE [exists |-> TRUE,
          session |-> [ID |-> id, Problem |-> "", Thoughts |-> <<>>,
                       CurrentThought |-> 0, EstimatedTotal |-> 0,
                       Status |-> "active", Branches |-> <<>>, Version |-> 0]]

\* current, exists := s.sessions[id]
Lookup(id) ==
    IF id \in DOMAIN sessions
    THEN [exists |-> TRUE, session |-> sessions[id]]
    ELSE [exists |-> FALSE, session |-> NoSession]

\* a SetSession that keeps the session already stored under the id
PutIfAbsent(session) ==
    IF session.ID \in DOMAIN sessions THEN sessions
    ELSE (session.ID :> session) @@ sessions

\* a SetSession that stores nothing
PutNothing(session) == sessions

\* s.sessions[id] = session
Put(session) == (session.ID :> session) @@ sessions

\* the RWMutex: RLock waits for the writer, Lock for the writer and the readers
CanRLock == mu.w = 0

CanLock == mu.w = 0 /\ mu.r = {}

RLocked(p) == [mu EXCEPT !.r = @ \cup {p}]

\* an RUnlock that is put off until CompareAndSwap returns
RUnlockedLate(p) == mu

RUnlocked(p) == [mu EXCEPT !.r = @ \ {p}]

Locked(p) == [mu EXCEPT !.w = p]

\* an Unlock that is left out
UnlockedNot(p) == mu

Unlocked(p) == [mu EXCEPT !.w = 0]

\* an error path that reports success
CasErrorSwallowed(t) == NoErr

\* CompareAndSwap's "if err != nil { return err }": the error it returns
CasError(t) == t.err

\* a save that does not look at the version
VersionMatchesAny(current, old) == TRUE

\* a test that finds every stored session changed
VersionMatchesNever(current, old) == FALSE

\* CompareAndSwap's test "current.Version != oldVersion" (negated)
VersionMatches(current, old) == current.Version = old

\* a save that keeps the version it read
BumpedNot(session, old) == [session EXCEPT !.Version = old]

\* CompareAndSwap's "updated.Version = oldVersion + 1"
Bumped(session, old) == [session EXCEPT !.Version = old + 1]

-----------------------------------------------------------------------------
(* What a call returns, and the goroutine's frame when it has returned.     *)
(* step is the number the text names: the step of a revise (its error names *)
(* it too), the thoughtID of an append.                                     *)

Response(p, kind, err) ==
    [kind |-> kind, id |-> args[p].SessionID, err |-> err,
     step |-> IF kind = "revise" THEN args[p].ReviseStep[1]
              ELSE IF kind = "append" /\ err = NoErr THEN thoughtID[p] ELSE 0,
     progress |-> IF kind = "append" /\ err = NoErr THEN progress[p] ELSE "",
     statusMsg |-> IF kind = "append" /\ err = NoErr THEN statusMsg[p] ELSE "",
     branchID |-> IF kind = "branch" /\ err = NoErr THEN branchID[p] ELSE "",
     runs |-> runs[p]]

Return(p, r) ==
    /\ pc' = [pc EXCEPT ![p] = "idle"]
    /\ args' = [args EXCEPT ![p] = NoArgs]
    /\ oldVersion' = [oldVersion EXCEPT ![p] = 0]
    /\ updated' = [updated EXCEPT ![p] = NoSession]
    /\ branchID' = [branchID EXCEPT ![p] = ""]
    /\ branchSession' = [branchSession EXCEPT ![p] = NoSession]
    /\ thoughtID' = [thoughtID EXCEPT ![p] = 0]
    /\ progress' = [progress EXCEPT ![p] = ""]
    /\ statusMsg' = [statusMsg EXCEPT ![p] = ""]
    /\ runs' = [runs EXCEPT ![p] = 0]
    /\ result' = [result EXCEPT ![p] = r]

-----------------------------------------------------------------------------
(* Steps of a goroutine *)

\* a tool call arrives: StartThinking goes to SetSession, ContinueThinking to
\* CompareAndSwap
Enter(p, a) ==
    /\ pc[p] = "idle"
    /\ args' = [args EXCEPT ![p] = a]
    /\ result' = [result EXCEPT ![p] = NoResult]
    /\ pc' = [pc EXCEPT ![p] = IF a.op = "start" THEN "set_lock" ELSE "cas_rlock"]
    /\ UNCHANGED <<sessions, mu, oldVersion, updated, branchID, branchSession,
                   thoughtID, progress, statusMsg, runs, bases, sessions0, held,
                   alias>>

\* one of the tool calls of the run
Call(p, a) ==
    /\ calls > 0
    /\ calls' = calls - 1
    /\ Enter(p, a)

Invoke(p, a) == Call(p, a) /\ UNCHANGED issued

\* SetSession: s.mu.Lock()
SetLock(p) ==
    /\ pc[p] = "set_lock"
    /\ CanLock
    /\ mu' = Locked(p)
    /\ pc' = [pc EXCEPT ![p] = "set_store"]
    /\ UNCHANGED <<sessions, args, oldVersion, updated, branchID, branchSession,
                   thoughtID, progress, statusMsg, runs, result, calls, bases,
                   sessions0, issued, held, alias>>

\* SetSession: s.sessions[session.ID] = session; s.mu.Unlock(); the handler returns
SetStore(p) ==
    /\ pc[p] = "set_store"
    /\ LET kind == Kind(args[p])
           session == IF kind = "start" THEN NewSession(args[p], RandomID)
                      ELSE branchSession[p]
       IN  /\ sessions' = Put(session)
           /\ alias' = IF kind = "start" THEN Drop(alias, Stored(session.ID))
                        ELSE Move(alias, Child(p), Stored(session.ID))
           /\ Return(p, [Response(p, kind, NoErr) EXCEPT
                            !.id = IF kind = "start" THEN session.ID ELSE @])
    /\ mu' = Unlocked(p)
    /\ UNCHANGED <<calls, bases, sessions0, issued, held>>

\* CompareAndSwap: s.mu.RLock()
CasRLock(p) ==
    /\ pc[p] = "cas_rlock"
    /\ CanRLock
    /\ mu' = RLocked(p)
    /\ pc' = [pc EXCEPT ![p] = "cas_read"]
    /\ UNCHANGED <<sessions, args, oldVersion, updated, branchID, branchSession,
                   thoughtID, progress, statusMsg, runs, result, calls, bases,
                   sessions0, issued, held, alias>>

\* CompareAndSwap: look the session up, copy it, s.mu.RUnlock()
CasRead(p) ==
    /\ pc[p] = "cas_read"
    /\ mu' = RUnlocked(p)
    /\ LET found == Lookup(args[p].SessionID)
       IN  IF ~found.exists
           THEN /\ Return(p, Response(p, Kind(args[p]), ErrNotFound))
                /\ UNCHANGED alias
           ELSE /\ updated' = [updated EXCEPT ![p] = clone(found.session)]
                /\ alias' = Link(alias, Copy(p), Stored(args[p].SessionID),
                                 cloneShared)
                /\ oldVersion' = [oldVersion EXCEPT ![p] = found.session.Version]
                /\ pc' = [pc EXCEPT ![p] = "cas_update"]
                /\ UNCHANGED <<args, branchID, branchSession, thoughtID, progress,
                               statusMsg, runs, result>>
    /\ UNCHANGED <<sessions, calls, bases, sessions0, issued, held>>

\* response variables that keep what the first run of the transform gave them
CapturedOnce(p, old, new) == IF runs[p] = 0 THEN new ELSE old

\* thoughtID, progress and statusMsg are variables of ContinueThinking that the
\* transform assigns on every run
Captured(p, old, new) == new

\* one more run of updateFunc
Counted(n) == IF n < MaxRuns THEN n + 1 ELSE n

\* CompareAndSwap: updated, err := updateFunc(sessionCopy), under no lock
CasUpdate(p) ==
    /\ pc[p] = "cas_update"
    /\ LET a == args[p]
           t == Transform(a, updated[p])
       IN  IF t.err # NoErr
           THEN /\ Return(p, [Response(p, Kind(a), CasError(t))
                                  EXCEPT !.runs = Counted(runs[p])])
                /\ alias' = Drop(Drop(alias, Copy(p)), Child(p))
                /\ UNCHANGED <<sessions, held>>
           ELSE /\ runs' = [runs EXCEPT ![p] = Counted(@)]
                /\ pc' = [pc EXCEPT ![p] = "cas_lock"]
                /\ IF Kind(a) = "branch"
                   THEN /\ updated' = [updated EXCEPT ![p] = t.session]
                        /\ branchID' = [branchID EXCEPT ![p] = t.branchID]
                        /\ branchSession' =
                               [branchSession EXCEPT ![p] = t.branchSession]
                        /\ alias' = Link(alias, Child(p), Copy(p),
                                         deepCopyThoughtsShared)
                        /\ UNCHANGED <<sessions, held, thoughtID, progress,
                                       statusMsg>>
                   ELSE IF Kind(a) = "append"
                   THEN /\ updated' = [updated EXCEPT ![p] = t.session]
                        /\ thoughtID' = [thoughtID EXCEPT ![p] = Captured(p, @, t.thoughtID)]
                        /\ progress' = [progress EXCEPT ![p] = Captured(p, @, t.progress)]
                        /\ statusMsg' = [statusMsg EXCEPT ![p] = Captured(p, @, t.statusMsg)]
                        /\ UNCHANGED <<sessions, held, alias, branchID,
                                       branchSession>>
                   ELSE \* the revise writes into the Thought object of the copy
                        /\ updated' = [CopiesAfter(Copy(p), ReviseEdit(a))
                                          EXCEPT ![p] = t.session]
                        /\ sessions' = StoreAfter(Copy(p), ReviseEdit(a))
                        /\ branchSession' = ChildrenAfter(Copy(p), ReviseEdit(a))
                        /\ held' = HeldAfter(Copy(p), ReviseEdit(a))
                        /\ UNCHANGED <<alias, branchID, thoughtID, progress,
                                       statusMsg>>
                /\ UNCHANGED <<args, oldVersion, result>>
    /\ UNCHANGED <<mu, calls, bases, sessions0, issued>>

\* CompareAndSwap: s.mu.Lock()
CasLock(p) ==
    /\ pc[p] = "cas_lock"
    /\ CanLock
    /\ mu' = Locked(p)
    /\ pc' = [pc EXCEPT ![p] = "cas_commit"]
    /\ UNCHANGED <<sessions, args, oldVersion, updated, branchID, branchSession,
                   thoughtID, progress, statusMsg, runs, result, calls, bases,
                   sessions0, issued, held, alias>>

\* a version mismatch handed to the caller as an error
CasConflict(p) == Return(p, Response(p, Kind(args[p]), "version conflict"))

\* CompareAndSwap: "version mismatch, retry": unlock and continue the loop,
\* which declares sessionCopy and oldVersion anew
CasRetry(p) ==
    /\ pc' = [pc EXCEPT ![p] = "cas_rlock"]
    /\ updated' = [updated EXCEPT ![p] = NoSession]
    /\ oldVersion' = [oldVersion EXCEPT ![p] = 0]
    /\ UNCHANGED <<args, branchID, branchSession, thoughtID, progress, statusMsg,
                   runs, result>>

\* CompareAndSwap: check the version; store and return, or loop
CasCommit(p) ==
    /\ pc[p] = "cas_commit"
    /\ mu' = Unlocked(p)
    /\ LET id == args[p].SessionID
           kind == Kind(args[p])
           found == Lookup(id)
       IN  IF ~found.exists
           THEN /\ Return(p, Response(p, kind, ErrNotFound))
                /\ alias' = Drop(Drop(alias, Copy(p)), Child(p))
                /\ UNCHANGED <<sessions, bases>>
           ELSE IF ~VersionMatches(found.session, oldVersion[p])
           THEN /\ CasRetry(p)
                /\ alias' = Drop(alias, Copy(p))
                /\ UNCHANGED <<sessions, bases>>
           ELSE /\ sessions' = (id :> Bumped(updated[p], oldVersion[p])) @@ sessions
                /\ alias' = Move(alias, Copy(p), Stored(id))
                /\ bases' = bases \cup {<<id, oldVersion[p]>>}
                /\ IF kind = "branch"
                   THEN \* store1.SetSession(branchSession) follows
                        /\ pc' = [pc EXCEPT ![p] = "set_lock"]
                        /\ updated' = [updated EXCEPT ![p] = NoSession]
                        /\ oldVersion' = [oldVersion EXCEPT ![p] = 0]
                        /\ UNCHANGED <<args, branchID, branchSession, thoughtID,
                                       progress, statusMsg, runs, result>>
                   ELSE Return(p, Response(p, kind, NoErr))
    /\ UNCHANGED <<calls, sessions0, issued, held>>

-----------------------------------------------------------------------------
(* Reads of the store, and what a caller does to the session it was handed *)

\* Session, Sessions, SessionSnapshot, SessionsSnapshot: s.mu.RLock()
ReadLock(p, a) ==
    /\ pc[p] = "idle"
    /\ calls > 0
    /\ calls' = calls - 1
    /\ CanRLock
    /\ mu' = RLocked(p)
    /\ args' = [args EXCEPT ![p] = a]
    /\ pc' = [pc EXCEPT ![p] = "read"]
    /\ UNCHANGED <<sessions, oldVersion, updated, branchID, branchSession,
                   thoughtID, progress, statusMsg, runs, result, bases, sessions0,
                   issued, held, alias>>

\* the read returns; handed maps the ids it found to the sessions it returns
\* for them (of a slice of sessions the caller takes one element), each with
\* these parts in common with the stored one; the deferred s.mu.RUnlock() runs
ReadReturn(p, op, handed, shared) ==
    /\ pc[p] = "read"
    /\ args[p].op = op
    /\ mu' = RUnlocked(p)
    /\ pc' = [pc EXCEPT ![p] = "idle"]
    /\ args' = [args EXCEPT ![p] = NoArgs]
    /\ IF DOMAIN handed = {}
       THEN /\ held' = [held EXCEPT ![p] =
                           [op |-> op, id |-> args[p].SessionID,
                            session |-> NoSession, edits |-> 0]]
            /\ alias' = Drop(alias, Held(p))
       ELSE \E id \in DOMAIN handed :
               /\ held' = [held EXCEPT ![p] =
                              [op |-> op, id |-> id, session |-> handed[id],
                               edits |-> 0]]
               /\ alias' = Link(alias, Held(p), Stored(id), shared)
    /\ UNCHANGED <<sessions, oldVersion, updated, branchID, branchSession,
                   thoughtID, progress, statusMsg, runs, result, calls, bases,
                   sessions0, issued>>

\* session, exists := s.sessions[id]; return session, exists
Session(p) ==
    ReadReturn(p, "Session",
               [id \in {args[p].SessionID} \cap DOMAIN sessions |-> sessions[id]],
               PointerCopy)

\* return slices.Collect(maps.Values(s.sessions))
Sessions(p) ==
    ReadReturn(p, "Sessions", [id \in DOMAIN sessions |-> sessions[id]], PointerCopy)

\* return session.clone(), true
SessionSnapshot(p) ==
    ReadReturn(p, "SessionSnapshot",
               [id \in {args[p].SessionID} \cap DOMAIN sessions |->
                   clone(sessions[id])],
               cloneShared)

\* sessions = append(sessions, session.clone()) for every stored session
SessionsSnapshot(p) ==
    ReadReturn(p, "SessionsSnapshot",
               [id \in DOMAIN sessions |-> clone(sessions[id])], cloneShared)

\* what a caller may do to a session it holds: set its Status, rewrite
\* thought 1, append a thought, rewrite the first of its Branches
CallerEdits ==
    { Edit("status", 0, "paused"), Edit("thought", 1, "x"),
      Edit("append", 0, "x"), Edit("branch", 1, "x") }

\* the caller writes through the pointer it was handed, under no lock
Mutate(p, e) ==
    /\ pc[p] = "idle"
    /\ held[p].op # Nil
    /\ held[p].session.ID # Nil
    /\ calls > 0
    /\ calls' = calls - 1
    /\ sessions' = StoreAfter(Held(p), e)
    /\ updated' = CopiesAfter(Held(p), e)
    /\ branchSession' = ChildrenAfter(Held(p), e)
    /\ held' = [HeldAfter(Held(p), e) EXCEPT ![p].edits = @ + 1]
    /\ UNCHANGED <<mu, pc, args, oldVersion, branchID, thoughtID, progress,
                   statusMsg, runs, result, bases, sessions0, issued, alias>>

-----------------------------------------------------------------------------
(* The server: any goroutine takes any tool call, from an empty store *)

Frames(P) ==
    /\ mu = [w |-> 0, r |-> {}]
    /\ pc = [p \in P |-> "idle"]
    /\ args = [p \in P |-> NoArgs]
    /\ oldVersion = [p \in P |-> 0]
    /\ updated = [p \in P |-> NoSession]
    /\ branchID = [p \in P |-> ""]
    /\ branchSession = [p \in P |-> NoSession]
    /\ thoughtID = [p \in P |-> 0]
    /\ progress = [p \in P |-> ""]
    /\ statusMsg = [p \in P |-> ""]
    /\ runs = [p \in P |-> 0]
    /\ result = [p \in P |-> NoResult]
    /\ bases = {}
    /\ issued = <<>>
    /\ held = [p \in P |-> NoHeld]
    /\ alias = {}

\* sessions the store can hold under s1 after a start and some committed calls
StartS1 == [op |-> "start", SessionID |-> "s1", Problem |-> "P", EstimatedSteps |-> 0]

Fresh == NewSession(StartS1, RandomID)

Committed(a, stored) == Bumped(Transform(a, clone(stored)).session, stored.Version)

OneThought == Committed(ContinueArg("s1", "a", <<>>, <<>>, FALSE, 0), Fresh)

RevisedThought == Committed(ContinueArg("s1", "c", <<>>, <<1>>, FALSE, 0), OneThought)

StoreOf(session) == (session.ID :> session)

Init ==
    /\ sessions = <<>>
    /\ sessions0 = sessions
    /\ calls = MaxCalls
    /\ Frames(Procs)

Next ==
    \/ \E p \in DOMAIN pc : \E a \in StartArgs \cup ContinueArgs : Invoke(p, a)
    \/ \E p \in DOMAIN pc : SetLock(p)
    \/ \E p \in DOMAIN pc : SetStore(p)
    \/ \E p \in DOMAIN pc : CasRLock(p)
    \/ \E p \in DOMAIN pc : CasRead(p)
    \/ \E p \in DOMAIN pc : CasUpdate(p)
    \/ \E p \in DOMAIN pc : CasLock(p)
    \/ \E p \in DOMAIN pc : CasCommit(p)

Spec == Init /\ [][Next]_vars

-----------------------------------------------------------------------------
(* ContinueThinking calls only, on a store that holds session s1 *)

InitContinue ==
    /\ sessions = StoreOf(Fresh)
    /\ sessions0 = sessions
    /\ calls = MaxCalls
    /\ Frames(Procs)

NextContinue ==
    \/ \E p \in DOMAIN pc : \E a \in ContinueArgs : Invoke(p, a)
    \/ \E p \in DOMAIN pc : SetLock(p)
    \/ \E p \in DOMAIN pc : SetStore(p)
    \/ \E p \in DOMAIN pc : CasRLock(p)
    \/ \E p \in DOMAIN pc : CasRead(p)
    \/ \E p \in DOMAIN pc : CasUpdate(p)
    \/ \E p \in DOMAIN pc : CasLock(p)
    \/ \E p \in DOMAIN pc : CasCommit(p)

SpecContinue == InitContinue /\ [][NextContinue]_vars

-----------------------------------------------------------------------------
(* A storm: StormCalls goroutines each fire one append at session s1, and   *)
(* nothing else touches it                                                 *)

StormAppends == { a \in AppendArgs : a.SessionID = "s1" }

StormInvoke(p, a) == result[p] = NoResult /\ Invoke(p, a)

InitStorm ==
    /\ sessions \in {StoreOf(Fresh), StoreOf(OneThought), StoreOf(RevisedThought)}
    /\ sessions0 = sessions
    /\ calls = StormCalls
    /\ Frames(1..StormCalls)

NextStorm ==
    \/ \E p \in DOMAIN pc : \E a \in StormAppends : StormInvoke(p, a)
    \/ \E p \in DOMAIN pc : CasRLock(p)
    \/ \E p \in DOMAIN pc : CasRead(p)
    \/ \E p \in DOMAIN pc : CasUpdate(p)
    \/ \E p \in DOMAIN pc : CasLock(p)
    \/ \E p \in DOMAIN pc : CasCommit(p)

SpecStorm == InitStorm /\ [][NextStorm]_vars

-----------------------------------------------------------------------------
(* One caller alone: it starts session s1 and appends to it, one call after *)
(* the other                                                               *)

SeqInvoke(p, a) ==
    /\ a.op = "start" \/ Exists(a.SessionID)
    /\ Call(p, a)
    /\ issued' = IF a.op = "start" THEN <<>> ELSE Append(issued, a.Thought)

InitSeq ==
    /\ sessions = <<>>
    /\ sessions0 = sessions
    /\ calls = SeqCalls
    /\ Frames({1})

NextSeq ==
    \/ \E p \in DOMAIN pc : \E a \in StartArgs \cup StormAppends : SeqInvoke(p, a)
    \/ \E p \in DOMAIN pc : SetLock(p)
    \/ \E p \in DOMAIN pc : SetStore(p)
    \/ \E p \in DOMAIN pc : CasRLock(p)
    \/ \E p \in DOMAIN pc : CasRead(p)
    \/ \E p \in DOMAIN pc : CasUpdate(p)
    \/ \E p \in DOMAIN pc : CasLock(p)
    \/ \E p \in DOMAIN pc : CasCommit(p)

SpecSeq == InitSeq /\ [][NextSeq]_vars

-----------------------------------------------------------------------------
(* Revise, branch and start calls on a store that holds s1 with one thought *)

InitRestart ==
    /\ sessions = StoreOf(OneThought)
    /\ sessions0 = sessions
    /\ calls = MaxCalls
    /\ Frames(Procs)

NextRestart ==
    \/ \E p \in DOMAIN pc : \E a \in StartArgs \cup ReviseArgs \cup BranchArgs :
           Invoke(p, a)
    \/ \E p \in DOMAIN pc : SetLock(p)
    \/ \E p \in DOMAIN pc : SetStore(p)
    \/ \E p \in DOMAIN pc : CasRLock(p)
    \/ \E p \in DOMAIN pc : CasRead(p)
    \/ \E p \in DOMAIN pc : CasUpdate(p)
    \/ \E p \in DOMAIN pc : CasLock(p)
    \/ \E p \in DOMAIN pc : CasCommit(p)

SpecRestart == InitRestart /\ [][NextRestart]_vars

-----------------------------------------------------------------------------
(* Branches at once: StormCalls goroutines each fire one branch call at     *)
(* session s1, which has no branches, and nothing else touches it          *)

InitBranches ==
    /\ sessions \in {StoreOf(Fresh), StoreOf(OneThought), StoreOf(RevisedThought)}
    /\ sessions0 = sessions
    /\ calls = StormCalls
    /\ Frames(1..StormCalls)

NextBranches ==
    \/ \E p \in DOMAIN pc : \E a \in BranchArgs : StormInvoke(p, a)
    \/ \E p \in DOMAIN pc : SetLock(p)
    \/ \E p \in DOMAIN pc : SetStore(p)
    \/ \E p \in DOMAIN pc : CasRLock(p)
    \/ \E p \in DOMAIN pc : CasRead(p)
    \/ \E p \in DOMAIN pc : CasUpdate(p)
    \/ \E p \in DOMAIN pc : CasLock(p)
    \/ \E p \in DOMAIN pc : CasCommit(p)

SpecBranches == InitBranches /\ [][NextBranches]_vars

-----------------------------------------------------------------------------
(* One caller alone runs a session from start to end: it starts s1, appends *)
(* a thought saying more are needed, appends one saying none is needed,    *)
(* and revises step 1                                                      *)

ScriptAppends(nextNeeded) ==
    { ContinueArg("s1", t, <<nextNeeded>>, <<>>, FALSE, e) :
        t \in {"a", "b"}, e \in {0, 7} }

Script ==
    << StartArgs,
       ScriptAppends(TRUE),
       ScriptAppends(FALSE),
       { a \in ReviseArgs : a.ReviseStep = <<1>> } >>

\* calls of the script that have been issued
ScriptDone == Len(Script) - calls

ScriptInvoke(p, a) == calls > 0 /\ a \in Script[ScriptDone + 1] /\ Invoke(p, a)

InitScript ==
    /\ sessions = <<>>
    /\ sessions0 = sessions
    /\ calls = Len(Script)
    /\ Frames({1})

NextScript ==
    \/ \E p \in DOMAIN pc : \E a \in UNION { Script[i] : i \in DOMAIN Script } :
           ScriptInvoke(p, a)
    \/ \E p \in DOMAIN pc : SetLock(p)
    \/ \E p \in DOMAIN pc : SetStore(p)
    \/ \E p \in DOMAIN pc : CasRLock(p)
    \/ \E p \in DOMAIN pc : CasRead(p)
    \/ \E p \in DOMAIN pc : CasUpdate(p)
    \/ \E p \in DOMAIN pc : CasLock(p)
    \/ \E p \in DOMAIN pc : CasCommit(p)

SpecScript == InitScript /\ [][NextScript]_vars

-----------------------------------------------------------------------------
(* A fork: s1, which holds one thought, is branched once; appends and       *)
(* revises on s1 and on its child follow                                   *)

ForkArgs ==
    { ContinueArg(id, "b", <<>>, <<>>, FALSE, 0) : id \in {"s1", "s1_branch_1"} }
        \cup { ContinueArg(id, "c", <<>>, <<1>>, FALSE, 0) : id \in {"s1", "s1_branch_1"} }

ForkInvoke(p, a) ==
    /\ IF Exists("s1_branch_1")
       THEN a \in ForkArgs
       ELSE a \in BranchArgs /\ \A q \in DOMAIN pc : pc[q] = "idle"
    /\ Invoke(p, a)

InitFork ==
    /\ sessions = StoreOf(OneThought)
    /\ sessions0 = sessions
    /\ calls = MaxCalls
    /\ Frames(Procs)

NextFork ==
    \/ \E p \in DOMAIN pc : \E a \in BranchArgs \cup ForkArgs : ForkInvoke(p, a)
    \/ \E p \in DOMAIN pc : SetLock(p)
    \/ \E p \in DOMAIN pc : SetStore(p)
    \/ \E p \in DOMAIN pc : CasRLock(p)
    \/ \E p \in DOMAIN pc : CasRead(p)
    \/ \E p \in DOMAIN pc : CasUpdate(p)
    \/ \E p \in DOMAIN pc : CasLock(p)
    \/ \E p \in DOMAIN pc : CasCommit(p)

SpecFork == InitFork /\ [][NextFork]_vars

-----------------------------------------------------------------------------
(* Callers that read the store and write to what they were handed, next to  *)
(* tool calls on s1, which holds one thought                               *)

ReadCalls ==
    BranchArgs \cup { ContinueArg("s1", "b", <<>>, <<>>, FALSE, 0),
                      ContinueArg("s1", "c", <<>>, <<1>>, FALSE, 0) }

InitRead ==
    /\ sessions = StoreOf(OneThought)
    /\ sessions0 = sessions
    /\ calls = MaxCalls
    /\ Frames(Procs)

NextRead ==
    \/ \E p \in DOMAIN pc : \E a \in ReadCalls : Invoke(p, a)
    \/ \E p \in DOMAIN pc : \E a \in ReadArgs : ReadLock(p, a)
    \/ \E p \in DOMAIN pc : Session(p)
    \/ \E p \in DOMAIN pc : Sessions(p)
    \/ \E p \in DOMAIN pc : SessionSnapshot(p)
    \/ \E p \in DOMAIN pc : SessionsSnapshot(p)
    \/ \E p \in DOMAIN pc : \E e \in CallerEdits : Mutate(p, e)
    \/ \E p \in DOMAIN pc : SetLock(p)
    \/ \E p \in DOMAIN pc : SetStore(p)
    \/ \E p \in DOMAIN pc : CasRLock(p)
    \/ \E p \in DOMAIN pc : CasRead(p)
    \/ \E p \in DOMAIN pc : CasUpdate(p)
    \/ \E p \in DOMAIN pc : CasLock(p)
    \/ \E p \in DOMAIN pc : CasCommit(p)

SpecRead == InitRead /\ [][NextRead]_vars

-----------------------------------------------------------------------------
(* The server with its readers: tool calls on s1, which holds one thought,  *)
(* next to callers that take snapshots, as ReviewThinking and               *)
(* ThinkingHistory do, and write to them                                    *)

SnapshotArgs == { a \in ReadArgs : a.op \in {"SessionSnapshot", "SessionsSnapshot"} }

InitSnapshot ==
    /\ sessions = StoreOf(OneThought)
    /\ sessions0 = sessions
    /\ calls = MaxCalls
    /\ Frames(Procs)

NextSnapshot ==
    \/ \E p \in DOMAIN pc : \E a \in ReadCalls \cup {StartS1} : Invoke(p, a)
    \/ \E p \in DOMAIN pc : \E a \in SnapshotArgs : ReadLock(p, a)
    \/ \E p \in DOMAIN pc : SessionSnapshot(p)
    \/ \E p \in DOMAIN pc : SessionsSnapshot(p)
    \/ \E p \in DOMAIN pc : \E e \in CallerEdits : Mutate(p, e)
    \/ \E p \in DOMAIN pc : SetLock(p)
    \/ \E p \in DOMAIN pc : SetStore(p)
    \/ \E p \in DOMAIN pc : CasRLock(p)
    \/ \E p \in DOMAIN pc : CasRead(p)
    \/ \E p \in DOMAIN pc : CasUpdate(p)
    \/ \E p \in DOMAIN pc : CasLock(p)
    \/ \E p \in DOMAIN pc : CasCommit(p)

SpecSnapshot == InitSnapshot /\ [][NextSnapshot]_vars

-----------------------------------------------------------------------------
(* Every tool call, on a store in which s1 already holds one thought: an   *)
(* id in use is started again while calls on it are in flight             *)

SpecReuse == InitRestart /\ [][Next]_vars

-----------------------------------------------------------------------------
(* ContinueThinking calls on s1, which holds one thought, with reviseStep   *)
(* and createBranch given or not, alone or with nextNeeded = false and an  *)
(* estimate                                                                *)

MixedArgs ==
    { ContinueArg("s1", "c", n, r, b, IF n = <<>> THEN 0 ELSE 7) :
          n \in {<<>>, <<FALSE>>}, r \in {<<>>, <<1>>}, b \in BOOLEAN }

NextMixed ==
    \/ \E p \in DOMAIN pc : \E a \in MixedArgs : Invoke(p, a)
    \/ \E p \in DOMAIN pc : SetLock(p)
    \/ \E p \in DOMAIN pc : SetStore(p)
    \/ \E p \in DOMAIN pc : CasRLock(p)
    \/ \E p \in DOMAIN pc : CasRead(p)
    \/ \E p \in DOMAIN pc : CasUpdate(p)
    \/ \E p \in DOMAIN pc : CasLock(p)
    \/ \E p \in DOMAIN pc : CasCommit(p)

SpecMixed == InitRestart /\ [][NextMixed]_vars

-----------------------------------------------------------------------------
(* StormCalls tool calls of any kind, issued by the goroutines of Procs on *)
(* a store that holds s1, under fair scheduling: a goroutine that can take *)
(* a step of its call takes it in the end; nothing obliges a caller to     *)
(* call                                                                    *)

InitFair ==
    /\ sessions = StoreOf(Fresh)
    /\ sessions0 = sessions
    /\ calls = StormCalls
    /\ Frames(Procs)

Go(p) ==
    \/ SetLock(p)
    \/ SetStore(p)
    \/ CasRLock(p)
    \/ CasRead(p)
    \/ CasUpdate(p)
    \/ CasLock(p)
    \/ CasCommit(p)

SpecFair == InitFair /\ [][Next]_vars /\ \A p \in Procs : WF_vars(Go(p))

-----------------------------------------------------------------------------
(* StartThinking with another problem text on the id s1, which is stored   *)
(* with a thought, next to appends and branches on s1                      *)

ReplaceArgs ==
    { [op |-> "start", SessionID |-> "s1", Problem |-> "Q", EstimatedSteps |-> e]
        : e \in StartEstimates }

NextReplace ==
    \/ \E p \in DOMAIN pc : \E a \in ReplaceArgs \cup StormAppends \cup BranchArgs :
           Invoke(p, a)
    \/ \E p \in DOMAIN pc : SetLock(p)
    \/ \E p \in DOMAIN pc : SetStore(p)
    \/ \E p \in DOMAIN pc : CasRLock(p)
    \/ \E p \in DOMAIN pc : CasRead(p)
    \/ \E p \in DOMAIN pc : CasUpdate(p)
    \/ \E p \in DOMAIN pc : CasLock(p)
    \/ \E p \in DOMAIN pc : CasCommit(p)

SpecReplace == InitRestart /\ [][NextReplace]_vars

-----------------------------------------------------------------------------
(* Every operation of the store on every path: the four reads, on a stored *)
(* and on a missing id; SetSession; CompareAndSwap with success, with a    *)
(* retry, with a transform error and on a missing id                       *)

LockArgs ==
    { StartS1,
      ContinueArg("s1", "b", <<>>, <<>>, FALSE, 0),
      ContinueArg("s1", "c", <<>>, <<0>>, FALSE, 0),
      ContinueArg("s1_branch_1", "a", <<>>, <<>>, FALSE, 0) }

NextLocks ==
    \/ \E p \in DOMAIN pc : \E a \in LockArgs : Invoke(p, a)
    \/ \E p \in DOMAIN pc : \E a \in ReadArgs : ReadLock(p, a)
    \/ \E p \in DOMAIN pc : Session(p)
    \/ \E p \in DOMAIN pc : Sessions(p)
    \/ \E p \in DOMAIN pc : SessionSnapshot(p)
    \/ \E p \in DOMAIN pc : SessionsSnapshot(p)
    \/ \E p \in DOMAIN pc : SetLock(p)
    \/ \E p \in DOMAIN pc : SetStore(p)
    \/ \E p \in DOMAIN pc : CasRLock(p)
    \/ \E p \in DOMAIN pc : CasRead(p)
    \/ \E p \in DOMAIN pc : CasUpdate(p)
    \/ \E p \in DOMAIN pc : CasLock(p)
    \/ \E p \in DOMAIN pc : CasCommit(p)

SpecLocks == InitRead /\ [][NextLocks]_vars

-----------------------------------------------------------------------------
(* Sustained contention: one goroutine appends to s1 while another keeps   *)
(* committing to s1, one commit between each read of the first and its     *)
(* version check, without end. The contender restarts s1 once its Version  *)
(* reaches MaxRuns, so that the run can go on for ever over finitely many  *)
(* stored sessions. Every goroutine is scheduled fairly.                   *)

Contended == CHOOSE p \in Procs : \A q \in Procs : p <= q

\* the call under contention has read the stored Version and has not locked yet
Uncontested ==
    /\ pc[Contended] = "cas_lock"
    /\ sessions["s1"].Version = oldVersion[Contended]

ContendedInvoke(a) ==
    /\ result[Contended] = NoResult
    /\ Enter(Contended, a)
    /\ UNCHANGED <<calls, issued>>

\* another call on s1 arrives while the contended call is between its read and
\* its lock
ContenderInvoke(p, a) ==
    /\ p # Contended
    /\ Uncontested
    /\ IF a.op = "start" THEN sessions["s1"].Version > 0
                         ELSE sessions["s1"].Version < MaxRuns
    /\ Enter(p, a)
    /\ UNCHANGED <<calls, issued>>

\* the contended call reaches s.mu.Lock() after the other commit
ContendedLock(p) ==
    /\ p = Contended => ~Uncontested
    /\ CasLock(p)

InitContention ==
    /\ sessions = StoreOf(Fresh)
    /\ sessions0 = sessions
    /\ calls = MaxCalls
    /\ Frames(Procs)

GoContention(p) ==
    \/ \E a \in StormAppends : p = Contended /\ ContendedInvoke(a)
    \/ \E a \in StartArgs \cup StormAppends : ContenderInvoke(p, a)
    \/ SetLock(p)
    \/ SetStore(p)
    \/ CasRLock(p)
    \/ CasRead(p)
    \/ CasUpdate(p)
    \/ ContendedLock(p)
    \/ CasCommit(p)

NextContention ==
    \/ \E a \in StormAppends : ContendedInvoke(a)
    \/ \E p \in DOMAIN pc : \E a \in StartArgs \cup StormAppends : ContenderInvoke(p, a)
    \/ \E p \in DOMAIN pc : SetLock(p)
    \/ \E p \in DOMAIN pc : SetStore(p)
    \/ \E p \in DOMAIN pc : CasRLock(p)
    \/ \E p \in DOMAIN pc : CasRead(p)
    \/ \E p \in DOMAIN pc : CasUpdate(p)
    \/ \E p \in DOMAIN pc : ContendedLock(p)
    \/ \E p \in DOMAIN pc : CasCommit(p)

SpecContention ==
    /\ InitContention
    /\ [][NextContention]_vars
    /\ \A p \in Procs : WF_vars(GoContention(p))

-----------------------------------------------------------------------------
(* Properties *)

\* goroutine p takes the step
Stepped(p) == pc'[p] # pc[p]

\* goroutine p, holding the write lock in CompareAndSwap, stores a session
CommitBy(p) == pc[p] = "cas_commit" /\ sessions' # sessions

\* goroutine p is inside CompareAndSwap
InCas(p) == pc[p] \in {"cas_rlock", "cas_read", "cas_update", "cas_lock", "cas_commit"}

\* the call of goroutine p returns with this step
Returns(p) == pc[p] # "idle" /\ pc'[p] = "idle"

Indices(session) == { session.Thoughts[i].Index : i \in 1..Len(session.Thoughts) }

\* every goroutine of the storm has fired its append and has its answer
StormDone == \A p \in DOMAIN pc : pc[p] = "idle" /\ result[p] # NoResult

\* C1: when the N appends fired concurrently at s1 have all returned, s1 holds
\* N more thoughts than before, their Index fields are exactly 1..len, and its
\* Version is the Version before plus N.
C1_ConcurrentAppends ==
    StormDone =>
        LET before == sessions0["s1"]
            after == sessions["s1"]
            n == Cardinality(DOMAIN pc)
        IN  /\ Len(after.Thoughts) = Len(before.Thoughts) + n
            /\ Indices(after) = 1..Len(after.Thoughts)
            /\ after.Version = before.Version + n

\* the storm is over, and one of its calls lost a race and ran its transform again
C1_Witness ==
    /\ StormDone
    /\ \E p \in DOMAIN pc : result[p].runs >= 2
    /\ Len(sessions0["s1"].Thoughts) >= 1

C3_CommitOnPriorState ==
    [][\A p \in DOMAIN pc :
          CommitBy(p) =>
              LET id == args[p].SessionID
                  t == Transform(args[p], sessions[id])
              IN  /\ t.err = NoErr
                  /\ sessions'[id] =
                         [t.session EXCEPT !.Version = sessions[id].Version + 1]
      ]_vars

\* C4: a CompareAndSwap commit stores a Version 1 above the Version stored
\* immediately before it, and a CompareAndSwap that returns an error changes
\* no Version.
C4_VersionStep ==
    [][\A p \in DOMAIN pc :
          /\ CommitBy(p) =>
                 sessions'[args[p].SessionID].Version
                     = sessions[args[p].SessionID].Version + 1
          /\ (InCas(p) /\ Returns(p) /\ result'[p].err # NoErr) =>
                 /\ DOMAIN sessions' = DOMAIN sessions
                 /\ \A id \in DOMAIN sessions :
                        sessions'[id].Version = sessions[id].Version
      ]_vars

\* one call has committed and another has come back with an error
C4_Witness ==
    /\ \E id \in DOMAIN sessions : sessions[id].Version >= 1
    /\ \E p \in DOMAIN pc : result[p].kind # Nil /\ result[p].err = NoErr
                            /\ result[p].kind \in {"append", "revise"}
    /\ \E p \in DOMAIN pc : result[p].kind # Nil /\ result[p].err # NoErr

\* C5: the Version stored under an id never decreases, and a stored state that
\* differs from the one before it carries a different Version.
C5_VersionMonotone ==
    [][\A id \in DOMAIN sessions :
          /\ id \in DOMAIN sessions'
          /\ sessions'[id].Version >= sessions[id].Version
          /\ sessions'[id] # sessions[id] =>
                 sessions'[id].Version # sessions[id].Version
      ]_vars

\* C6: when the transform fails on an attempt, CompareAndSwap returns that
\* error with this very step and the store is as it was; no call that returns
\* an error has stored anything.
C6_TransformError ==
    [][\A p \in DOMAIN pc :
          /\ (pc[p] = "cas_update" /\ Stepped(p)
                /\ Transform(args[p], updated[p]).err # NoErr) =>
                 /\ pc'[p] = "idle"
                 /\ result'[p].err = Transform(args[p], updated[p]).err
                 /\ sessions' = sessions
          /\ (InCas(p) /\ Stepped(p) /\ sessions' # sessions) =>
                 \/ pc'[p] = "idle" /\ result'[p].err = NoErr
                 \/ pc'[p] = "set_lock"
      ]_vars

\* a revise has come back with the error of its transform
C6_Witness ==
    \E p \in DOMAIN pc :
        /\ result[p].kind = "revise"
        /\ result[p].err = ErrInvalidStep
        /\ result[p].id \in DOMAIN sessions

\* C7: ContinueThinking on an id the store does not hold returns the not-found
\* error from the lookup, having run no transform and made no further attempt,
\* and the store is as it was.
C7_NotFound ==
    [][\A p \in DOMAIN pc :
          /\ (pc[p] = "cas_read" /\ Stepped(p)
                /\ args[p].SessionID \notin DOMAIN sessions) =>
                 /\ pc'[p] = "idle"
                 /\ result'[p].err = ErrNotFound
                 /\ result'[p].runs = 0
                 /\ sessions' = sessions
          /\ (Returns(p) /\ result'[p].err = ErrNotFound) =>
                 /\ result'[p].runs = 0
                 /\ sessions' = sessions
      ]_vars

\* an append, a revise or a branch has come back with not found
C7_Witness ==
    \E p \in DOMAIN pc :
        /\ result[p].kind \in {"append", "revise", "branch"}
        /\ result[p].err = ErrNotFound
        /\ result[p].id \notin DOMAIN sessions

\* C8: the commit of a revise of step k changes thought k's Content to the
\* supplied text and its Revised to true, keeps the length, every Index and
\* every other thought, and raises the Version by 1.
C8_ReviseFrame ==
    [][\A p \in DOMAIN pc :
          (CommitBy(p) /\ Kind(args[p]) = "revise") =>
              LET before == sessions[args[p].SessionID]
                  after == sessions'[args[p].SessionID]
                  k == args[p].ReviseStep[1]
              IN  /\ Len(after.Thoughts) = Len(before.Thoughts)
                  /\ after.Version = before.Version + 1
                  /\ \A i \in 1..Len(after.Thoughts) :
                         /\ after.Thoughts[i].Index = before.Thoughts[i].Index
                         /\ i # k => after.Thoughts[i] = before.Thoughts[i]
                         /\ i = k => /\ after.Thoughts[i].Content = args[p].Thought
                                     /\ after.Thoughts[i].Revised
      ]_vars

\* C9: a revise whose step is below 1 or above the number of thoughts returns
\* the invalid-step error and leaves the store, so every Version, Content and
\* Revised flag, as it was.
C9_InvalidStep ==
    [][\A p \in DOMAIN pc :
          (pc[p] = "cas_update" /\ Stepped(p) /\ Kind(args[p]) = "revise"
             /\ (args[p].ReviseStep[1] <= 0
                   \/ args[p].ReviseStep[1] >= Len(updated[p].Thoughts) + 1)) =>
              /\ pc'[p] = "idle"
              /\ result'[p].err = ErrInvalidStep
              /\ sessions' = sessions
      ]_vars

\* a revise of step len+1 of a session that holds a thought has been refused
C9_Witness ==
    \E p \in DOMAIN pc :
        /\ result[p].kind = "revise"
        /\ result[p].err = ErrInvalidStep
        /\ result[p].id \in DOMAIN sessions
        /\ Len(sessions[result[p].id].Thoughts) >= 1
        /\ result[p].step = Len(sessions[result[p].id].Thoughts) + 1

\* C10: after N sequential appends to a freshly started session its thoughts
\* are N, thought i has Index i and the content of the i-th append.
C10_SequentialAppends ==
    (\A p \in DOMAIN pc : pc[p] = "idle") /\ "s1" \in DOMAIN sessions =>
        LET thoughts == sessions["s1"].Thoughts
        IN  /\ Len(thoughts) = Len(issued)
            /\ \A i \in 1..Len(thoughts) :
                   /\ thoughts[i].Index = i
                   /\ thoughts[i].Content = issued[i]

\* three appends with different contents have returned
C10_Witness ==
    /\ \A p \in DOMAIN pc : pc[p] = "idle"
    /\ "s1" \in DOMAIN sessions
    /\ Len(issued) = 3
    /\ issued[1] # issued[2]
    /\ Len(sessions["s1"].Thoughts) = 3

\* C11: in every reachable state of the store, in every stored session (one
\* that was started as well as a branch child) the thought at position i has
\* Index i (positions counted from 1).
C11_IndexIsPosition ==
    \A id \in DOMAIN sessions :
        \A i \in 1..Len(sessions[id].Thoughts) :
            sessions[id].Thoughts[i].Index = i

\* the store holds a started session and a branch child, each with a thought
C11_Witness ==
    /\ "s1" \in DOMAIN sessions /\ "s1_branch_1" \in DOMAIN sessions
    /\ Len(sessions["s1"].Thoughts) >= 1
    /\ Len(sessions["s1_branch_1"].Thoughts) >= 1

\* s is a prefix of t
IsPrefix(s, t) == Len(s) <= Len(t) /\ \A i \in 1..Len(s) : t[i] = s[i]

\* C12: under every session id the stored Branches only grows: with every step
\* the id stays stored and the Branches stored before are a prefix of the
\* Branches stored after.
C12_BranchesGrow ==
    [][\A id \in DOMAIN sessions :
          /\ id \in DOMAIN sessions'
          /\ IsPrefix(sessions[id].Branches, sessions'[id].Branches)
      ]_vars

\* the elements of a sequence
Range(s) == { s[i] : i \in 1..Len(s) }

\* C13: when the N branch calls fired concurrently at s1, which had no
\* branches, have all returned, they have returned N distinct branch ids, and
\* the Branches of s1 has length N and holds every one of them.
C13_ConcurrentBranches ==
    StormDone =>
        LET n == Cardinality(DOMAIN pc)
            ids == { result[p].branchID : p \in DOMAIN pc }
        IN  /\ \A p \in DOMAIN pc : result[p].err = NoErr /\ result[p].branchID # ""
            /\ Cardinality(ids) = n
            /\ Len(sessions["s1"].Branches) = n
            /\ Range(sessions["s1"].Branches) = ids

\* the branch calls are over, and one of them lost a race on a parent that
\* holds a thought and ran its transform again
C13_Witness ==
    /\ StormDone
    /\ \A p \in DOMAIN pc : result[p].kind = "branch"
    /\ \E p \in DOMAIN pc : result[p].runs >= 2
    /\ Len(sessions0["s1"].Thoughts) >= 1
    /\ sessions0["s1"].Branches = <<>>

\* C14: the branchSession a branch call holds when it commits the parent has
\* the thoughts (Index, Content, Revised, one by one) of the parent state that
\* commit stores, on a first attempt as on a later one; nothing changes it
\* until the call inserts it, and the child it inserts has these thoughts.
C14_ChildEqualsParent ==
    [][\A p \in DOMAIN pc :
          (pc[p] # "idle" /\ Kind(args[p]) = "branch") =>
              /\ CommitBy(p) =>
                     LET parent == sessions'[args[p].SessionID].Thoughts
                         child == branchSession[p].Thoughts
                     IN  /\ Len(child) = Len(parent)
                         /\ \A i \in 1..Len(child) :
                                /\ child[i].Index = parent[i].Index
                                /\ child[i].Content = parent[i].Content
                                /\ child[i].Revised = parent[i].Revised
              /\ (CommitBy(p) \/ pc[p] = "set_lock") =>
                     branchSession'[p] = branchSession[p]
              /\ (pc[p] = "set_store" /\ Stepped(p)) =>
                     /\ branchSession[p].ID \in DOMAIN sessions'
                     /\ sessions'[branchSession[p].ID].Thoughts
                            = branchSession[p].Thoughts
      ]_vars

\* a branch call that ran its transform twice has returned, and its child
\* holds a thought
C14_Witness ==
    \E p \in DOMAIN pc :
        /\ result[p].kind = "branch" /\ result[p].err = NoErr
        /\ result[p].runs >= 2
        /\ result[p].branchID \in DOMAIN sessions
        /\ Len(sessions[result[p].branchID].Thoughts) >= 1

\* C16: the branchSession of a branch call that commits the parent has
\* Version 0, Status active, no Branches, CurrentThought equal to the number
\* of its thoughts, the EstimatedTotal of the parent state the commit stores
\* and, as its ID, the id the commit adds at the end of the parent's
\* Branches and the call returns; the call stores it under that id as it is.
C16_ChildFields ==
    [][\A p \in DOMAIN pc :
          /\ (CommitBy(p) /\ Kind(args[p]) = "branch") =>
                 LET parent == sessions'[args[p].SessionID]
                     child == branchSession[p]
                 IN  /\ child.Version = 0
                     /\ child.Status = "active"
                     /\ child.Branches = <<>>
                     /\ child.CurrentThought = Len(child.Thoughts)
                     /\ child.EstimatedTotal = parent.EstimatedTotal
                     /\ parent.Branches # <<>>
                     /\ child.ID = parent.Branches[Len(parent.Branches)]
                     /\ child.ID = branchID[p]
          /\ (pc[p] = "set_store" /\ Stepped(p) /\ Kind(args[p]) = "branch") =>
                 /\ sessions' = (branchID[p] :> branchSession[p]) @@ sessions
                 /\ result'[p].branchID = branchID[p]
      ]_vars

\* a branch of a parent at a Version above 0, with a thought, has returned and
\* its child is stored
C16_Witness ==
    \E p \in DOMAIN pc :
        /\ result[p].kind = "branch" /\ result[p].err = NoErr
        /\ result[p].branchID \in DOMAIN sessions
        /\ Len(sessions[result[p].branchID].Thoughts) >= 1
        /\ sessions[result[p].id].Version >= 2

\* C19: one caller runs the script on s1.  When the start has returned, s1 is
\* active, has no thoughts and Version 0; when the append with nextNeeded =
\* true has returned, it has 1 thought with Index 1, is active and has
\* Version 1; when the append with nextNeeded = false has returned, it has 2
\* thoughts, is completed and has Version 2; when the revise of step 1 has
\* returned, thought 1 has the revise's Content and Revised = true, thought 2
\* is as it was, s1 is still completed and has Version 3.
C19_EndToEnd ==
    (\A p \in DOMAIN pc : pc[p] = "idle") /\ ScriptDone >= 1 =>
        LET s == sessions["s1"]
        IN  /\ \A p \in DOMAIN pc : result[p].err = NoErr
            /\ s.Version = ScriptDone - 1
            /\ ScriptDone = 1 => s.Status = "active" /\ s.Thoughts = <<>>
            /\ ScriptDone = 2 => /\ s.Status = "active"
                                 /\ Len(s.Thoughts) = 1
                                 /\ s.Thoughts[1].Index = 1
                                 /\ ~s.Thoughts[1].Revised
            /\ ScriptDone = 3 => /\ s.Status = "completed"
                                 /\ Len(s.Thoughts) = 2
                                 /\ ~s.Thoughts[1].Revised
            /\ ScriptDone = 4 => /\ s.Status = "completed"
                                 /\ Len(s.Thoughts) = 2
                                 /\ s.Thoughts[1].Content
                                        \in { a.Thought : a \in Script[4] }
                                 /\ s.Thoughts[1].Revised
                                 /\ s.Thoughts[1].Index = 1
                                 /\ ~s.Thoughts[2].Revised
                                 /\ s.Version = 3

\* the script has run to its end: the revise of step 1 has returned
C19_Witness ==
    /\ \A p \in DOMAIN pc : pc[p] = "idle"
    /\ ScriptDone = 4
    /\ \E p \in DOMAIN pc : result[p].kind = "revise" /\ result[p].err = NoErr
                            /\ result[p].step = 1
    /\ sessions["s1"].Version = 3

Forked(id1, id2) ==
    \/ id2 \in Range(sessions[id1].Branches)
    \/ id1 \in Range(sessions[id2].Branches)

\* C15: a stored parent and a stored child of it have no Thought object in
\* common, and no step of an append or a revise on one of the two changes the
\* thoughts stored for the other.
C15_ForkIndependent ==
    [][\A id1 \in DOMAIN sessions : \A id2 \in DOMAIN sessions :
          (id1 # id2 /\ Forked(id1, id2)) =>
              /\ <<Stored(id1), Stored(id2), "thoughts">> \notin alias
              /\ \A p \in DOMAIN pc :
                     (InCas(p) /\ Stepped(p) /\ args[p].SessionID = id1
                        /\ Kind(args[p]) \in {"append", "revise"}) =>
                         /\ id2 \in DOMAIN sessions'
                         /\ sessions'[id2].Thoughts = sessions[id2].Thoughts
      ]_vars

\* after the branch the parent's thought 1 was revised and the child was
\* appended to: the child still has the thought as it was copied, the parent
\* has no second thought
C15_Witness ==
    /\ "s1_branch_1" \in DOMAIN sessions
    /\ sessions["s1"].Thoughts[1].Revised
    /\ ~sessions["s1_branch_1"].Thoughts[1].Revised
    /\ Len(sessions["s1_branch_1"].Thoughts) = 2
    /\ Len(sessions["s1"].Thoughts) = 1

\* goroutine p writes to the session it holds
MutateBy(p) == held[p].op # Nil /\ held'[p].op # Nil
               /\ held'[p].edits = held[p].edits + 1

Snapshots == {"SessionSnapshot", "SessionsSnapshot"}

\* C17: a write of a caller to a session that SessionSnapshot or
\* SessionsSnapshot handed it leaves the store as it is, whatever the write
\* (a field, a thought, an appended thought, a branch); and the session
\* SessionSnapshot or SessionsSnapshot hands out is equal to the session
\* stored under the id at that step.
C17_SnapshotIsolated ==
    [][\A p \in DOMAIN pc :
          /\ (MutateBy(p) /\ held[p].op \in Snapshots) => sessions' = sessions
          /\ (pc[p] = "read" /\ Stepped(p) /\ args[p].op \in Snapshots
                /\ held'[p].session.ID # Nil) =>
                 /\ sessions' = sessions
                 /\ held'[p].session = sessions[held'[p].id]
      ]_vars

\* a caller has written to the snapshot it holds, another holds a snapshot of
\* the same id it has not written to, and this one equals the stored session
C17_Witness ==
    \E p \in DOMAIN pc : \E q \in DOMAIN pc :
        /\ held[p].op \in Snapshots /\ held[q].op \in Snapshots
        /\ held[p].session.ID # Nil /\ held[q].session.ID # Nil
        /\ held[p].id = held[q].id
        /\ held[p].edits >= 1 /\ held[q].edits = 0
        /\ held[p].session # held[q].session
        /\ held[q].session = sessions[held[q].id]

\* C18: a write of a caller to a session that any read of the store (Session,
\* Sessions, SessionSnapshot, SessionsSnapshot) handed it changes neither the
\* store nor the session any other caller holds.
C18_ReadIsCopy ==
    [][\A p \in DOMAIN pc :
          MutateBy(p) =>
              /\ sessions' = sessions
              /\ \A q \in DOMAIN pc \ {p} : held'[q] = held[q]
      ]_vars

\* C21: a ContinueThinking call changes the stored session once, with the
\* commit of its last attempt, however often its transform ran: the commit of
\* an append leaves one thought more than was stored before it, the commit of
\* a branch one id more in Branches, every commit a Version higher by 1, and
\* no other step of the call changes the session stored under its id.
C21_AppliedOnce ==
    [][\A p \in DOMAIN pc :
          /\ CommitBy(p) =>
                 LET before == sessions[args[p].SessionID]
                     after == sessions'[args[p].SessionID]
                 IN  /\ after.Version = before.Version + 1
                     /\ Kind(args[p]) = "append" =>
                            Len(after.Thoughts) = Len(before.Thoughts) + 1
                     /\ Kind(args[p]) = "branch" =>
                            Len(after.Branches) = Len(before.Branches) + 1
                     /\ pc'[p] \in {"idle", "set_lock"}
          /\ (InCas(p) /\ Stepped(p) /\ ~CommitBy(p)
                /\ args[p].SessionID \in DOMAIN sessions) =>
                 /\ args[p].SessionID \in DOMAIN sessions'
                 /\ sessions'[args[p].SessionID] = sessions[args[p].SessionID]
      ]_vars

\* C22: the session stored under an id changes only with the storing step of
\* a SetSession or with the commit of a CompareAndSwap on that id, which puts
\* a whole session in its place: the one StartThinking or the branch built,
\* or the finished copy of the transform with the Version raised; no running
\* transform and no caller of a snapshot changes it.  A SessionSnapshot hands
\* out the session that is stored at that step, in all its fields.
C22_NoInPlaceChange ==
    [][/\ \A id \in DOMAIN sessions' :
              (id \notin DOMAIN sessions \/ sessions'[id] # sessions[id]) =>
                  \E p \in DOMAIN pc :
                      \/ /\ pc[p] = "set_store" /\ Stepped(p)
                         /\ sessions'[id] =
                                IF Kind(args[p]) = "start"
                                THEN NewSession(args[p], RandomID)
                                ELSE branchSession[p]
                      \/ /\ pc[p] = "cas_commit" /\ Stepped(p)
                         /\ args[p].SessionID = id
                         /\ sessions'[id] =
                                [updated[p] EXCEPT !.Version = oldVersion[p] + 1]
       /\ DOMAIN sessions \subseteq DOMAIN sessions'
       /\ \A p \in DOMAIN pc :
              (pc[p] = "read" /\ Stepped(p) /\ args[p].op = "SessionSnapshot"
                 /\ args[p].SessionID \in DOMAIN sessions) =>
                  held'[p].session = sessions[args[p].SessionID]
      ]_vars

\* a reader holds the snapshot it took of s1 while another caller's revise has
\* run on its copy and is not yet committed: the snapshot is the stored
\* session, without the revise
C22_Witness ==
    \E p \in DOMAIN pc : \E q \in DOMAIN pc :
        /\ held[p].op = "SessionSnapshot" /\ held[p].edits = 0
        /\ held[p].session.ID = "s1"
        /\ pc[q] \in {"cas_lock", "cas_commit"} /\ Kind(args[q]) = "revise"
        /\ updated[q].Thoughts[1].Revised
        /\ held[p].session = sessions["s1"]
        /\ ~held[p].session.Thoughts[1].Revised

\* C23: no step of a ContinueThinking call on session A, whether the call
\* ends in success or in an error, changes or removes the session stored
\* under another id, or stores a session under a new id, except that a branch
\* call stores its child under the branch id.
C23_OtherSessionsKept ==
    [][\A p \in DOMAIN pc :
          (pc[p] # "idle" /\ Stepped(p) /\ args[p].op = "continue") =>
              LET own == IF Kind(args[p]) = "branch" /\ pc[p] = "set_store"
                         THEN {args[p].SessionID, branchID[p]}
                         ELSE {args[p].SessionID}
              IN  /\ DOMAIN sessions' \subseteq DOMAIN sessions \cup own
                  /\ \A id \in DOMAIN sessions \ own :
                         id \in DOMAIN sessions' /\ sessions'[id] = sessions[id]
      ]_vars

\* next to a stored child that was appended to, a revise on s1 has come back
\* with an error and s1 is without thoughts as before
C23_Witness ==
    /\ "s1_branch_1" \in DOMAIN sessions
    /\ Len(sessions["s1_branch_1"].Thoughts) = 1
    /\ sessions["s1"].Thoughts = <<>>
    /\ \E p \in DOMAIN pc : result[p].kind = "revise" /\ result[p].id = "s1"
                            /\ result[p].err = ErrInvalidStep

\* goroutine p stands before a lock of the store that it cannot take now
Waiting(p) ==
    \/ pc[p] \in {"set_lock", "cas_lock"} /\ ~CanLock
    \/ pc[p] = "cas_rlock" /\ ~CanRLock

\* goroutine q holds the write lock or a read lock of the store
Holding(q) == mu.w = q \/ q \in mu.r

\* C24: in no reachable state does an operation on one session id wait for a
\* lock of the store that an operation on another session id holds.
C24_NoCrossBlocking ==
    \A p \in DOMAIN pc : \A q \in DOMAIN pc :
        (Waiting(p) /\ Holding(q)) => args[p].SessionID = args[q].SessionID

\* C25: while the transform of a CompareAndSwap is to run or runs, the call
\* holds neither the read lock nor the write lock of the store, so whoever
\* holds or waits for a lock then does not wait for that transform.
C25_NoLockInTransform ==
    \A p \in DOMAIN pc :
        pc[p] \in {"cas_update", "cas_lock"} => ~Holding(p)

\* a transform is about to run while another goroutine holds the write lock
C25_Witness ==
    \E p \in DOMAIN pc : \E q \in DOMAIN pc :
        /\ pc[p] = "cas_update"
        /\ q # p /\ mu.w = q /\ pc[q] \in {"cas_commit", "set_store"}

\* C26: when a branch call stores its child with SetSession, no session is
\* stored under the child's id.
C26_ChildIdIsNew ==
    [][\A p \in DOMAIN pc :
          (pc[p] = "set_store" /\ Stepped(p) /\ Kind(args[p]) = "branch") =>
              branchSession[p].ID \notin DOMAIN sessions
      ]_vars

\* goroutine p has committed the branch id b to the parent id and has not yet
\* stored the child
InBranchWindow(p, id, b) ==
    /\ pc[p] \in {"set_lock", "set_store"}
    /\ Kind(args[p]) = "branch"
    /\ args[p].SessionID = id
    /\ branchID[p] = b

\* C27: every id in the Branches of a stored session has a session stored
\* under it, unless a branch call on that session that registered the id
\* stands between its commit and the insert of its child; and the child of a
\* branch call that has returned is stored.
C27_BranchHasChild ==
    /\ \A id \in DOMAIN sessions : \A b \in Range(sessions[id].Branches) :
           \/ b \in DOMAIN sessions
           \/ \E p \in DOMAIN pc : InBranchWindow(p, id, b)
    /\ \A p \in DOMAIN pc :
           (result[p].kind = "branch" /\ result[p].err = NoErr) =>
               result[p].branchID \in DOMAIN sessions

\* one branch call has returned and its child is stored, while a second one
\* has registered its id in the parent and not yet stored its child
C27_Witness ==
    \E p \in DOMAIN pc : \E q \in DOMAIN pc :
        /\ result[q].kind = "branch" /\ result[q].err = NoErr
        /\ result[q].branchID \in DOMAIN sessions
        /\ InBranchWindow(p, "s1", branchID[p])
        /\ branchID[p] \in Range(sessions["s1"].Branches)
        /\ branchID[p] \notin DOMAIN sessions

\* C28: an append whose copy of the session has Status completed is not
\* refused: its transform returns no error and adds to the copy the thought
\* with Index len+1 and the content of the call, and when the call commits it
\* stores that copy with the Version it read raised by 1 and returns success.
C28_AppendToCompleted ==
    [][\A p \in DOMAIN pc :
          /\ (pc[p] = "cas_update" /\ Stepped(p) /\ Kind(args[p]) = "append"
                /\ updated[p].Status = "completed") =>
                 /\ pc'[p] = "cas_lock"
                 /\ updated'[p].Status = "completed"
                 /\ updated'[p].Thoughts =
                        Append(updated[p].Thoughts,
                               [Index |-> Len(updated[p].Thoughts) + 1,
                                Content |-> args[p].Thought, Revised |-> FALSE])
          /\ (CommitBy(p) /\ Kind(args[p]) = "append"
                /\ sessions[args[p].SessionID].Status = "completed") =>
                 /\ sessions'[args[p].SessionID].Thoughts = updated[p].Thoughts
                 /\ sessions'[args[p].SessionID].Version = oldVersion[p] + 1
                 /\ oldVersion[p] = sessions[args[p].SessionID].Version
                 /\ result'[p].err = NoErr
      ]_vars

\* s1 was completed by its first append, and a second append, which does not
\* say that no more thoughts are needed, has returned with step 2
C28_Witness ==
    /\ "s1" \in DOMAIN sessions
    /\ sessions["s1"].Status = "completed"
    /\ Len(sessions["s1"].Thoughts) = 2
    /\ sessions["s1"].Thoughts[2].Content = "b"
    /\ sessions["s1"].Version = 2
    /\ \E p \in DOMAIN pc : result[p].kind = "append" /\ result[p].err = NoErr
                            /\ result[p].step = 2

C30_ResponseOfCommit ==
    [][\A p \in DOMAIN pc :
          (CommitBy(p) /\ Kind(args[p]) = "append") =>
              LET stored == sessions'[args[p].SessionID]
                  n == Len(stored.Thoughts)
              IN  /\ result'[p].err = NoErr
                  /\ n > 0
                  /\ result'[p].step = n
                  /\ stored.Thoughts[n].Index = result'[p].step
                  /\ stored.Thoughts[n].Content = args[p].Thought
                  /\ (result'[p].statusMsg = "completed") <=> (stored.Status = "completed")
      ]_vars

\* an append that did not ask for completion has committed on its second run,
\* behind an append that completed the session: it reports the later step and
\* completion
C30_Witness ==
    \E p \in DOMAIN pc :
        /\ result[p].kind = "append" /\ result[p].err = NoErr
        /\ result[p].runs >= 2
        /\ result[p].statusMsg = "completed"
        /\ sessions["s1"].Status = "completed"
        /\ result[p].step = Len(sessions["s1"].Thoughts)
        /\ \E q \in DOMAIN pc : q # p /\ result[q].kind = "append"
                                /\ result[q].step = result[p].step - 1

\* C31: in a store whose sessions are started once, the k-th entry of the
\* Branches of every stored session is the id of the session followed by
\* "_branch_" and k, and the entries of Branches are pairwise distinct
C31_BranchIdsNumbered ==
    \A id \in DOMAIN sessions :
        LET b == sessions[id].Branches
        IN  /\ \A k \in 1..Len(b) : b[k] = id \o "_branch_" \o ToString(k)
            /\ \A j, k \in 1..Len(b) : b[j] = b[k] => j = k

\* s1 has two branches, the second registered by a call that lost a race and
\* ran its transform again
C31_Witness ==
    /\ Len(sessions["s1"].Branches) = 2
    /\ \E p \in DOMAIN pc : /\ result[p].kind = "branch"
                            /\ result[p].runs >= 2
                            /\ result[p].branchID = sessions["s1"].Branches[2]

\* C32: the Status of a stored session is active or completed, and no commit
\* of a ContinueThinking call (append, revise or branch registration) on a
\* session that is stored as completed stores it with another Status
C32_CompletedStays ==
    /\ [](\A id \in DOMAIN sessions : sessions[id].Status \in {"active", "completed"})
    /\ [][\A p \in DOMAIN pc :
             (CommitBy(p) /\ sessions[args[p].SessionID].Status = "completed") =>
                 sessions'[args[p].SessionID].Status = "completed"
         ]_vars

\* C33: the commit of a branch call stores the parent as it was stored, with
\* one more entry in Branches and Version raised by 1: its Thoughts,
\* CurrentThought, EstimatedTotal, Status and Problem are unchanged; the
\* thought text of the call is added neither to the parent nor to the child,
\* whose thoughts are the parent's
C33_BranchKeepsParent ==
    [][\A p \in DOMAIN pc :
          (CommitBy(p) /\ Kind(args[p]) = "branch") =>
              LET before == sessions[args[p].SessionID]
                  after == sessions'[args[p].SessionID]
              IN  /\ after.Thoughts = before.Thoughts
                  /\ after.CurrentThought = before.CurrentThought
                  /\ after.EstimatedTotal = before.EstimatedTotal
                  /\ after.Status = before.Status
                  /\ after.Problem = before.Problem
                  /\ Len(after.Branches) = Len(before.Branches) + 1
                  /\ IsPrefix(before.Branches, after.Branches)
                  /\ after.Version = before.Version + 1
                  /\ branchSession[p].Thoughts = before.Thoughts
      ]_vars

\* C34: the commit of a ContinueThinking call does one thing to the session
\* stored under its id and raises its Version by 1, and the call commits once.
\* With reviseStep present it rewrites that thought and nothing else (no
\* branch, no new thought, Status and EstimatedTotal as stored); otherwise
\* with createBranch true it adds one branch id and nothing else; otherwise it
\* adds one thought and no branch.
C34_OneOfThree ==
    [][\A p \in DOMAIN pc :
          /\ CommitBy(p) =>
              LET a == args[p]
                  before == sessions[a.SessionID]
                  after == sessions'[a.SessionID]
              IN  /\ after.Version = before.Version + 1
                  /\ pc'[p] \in {"idle", "set_lock"}
                  /\ IF a.ReviseStep # <<>>
                     THEN /\ after = [before EXCEPT
                                 !.Thoughts[a.ReviseStep[1]].Content = a.Thought,
                                 !.Thoughts[a.ReviseStep[1]].Revised = TRUE,
                                 !.Version = @ + 1]
                          /\ pc'[p] = "idle"
                          /\ result'[p].kind = "revise"
                     ELSE IF a.CreateBranch
                     THEN /\ after = [before EXCEPT
                                 !.Branches = Append(@, a.SessionID \o "_branch_"
                                     \o ToString(Len(before.Branches) + 1)),
                                 !.Version = @ + 1]
                          /\ pc'[p] = "set_lock"
                     ELSE /\ Len(after.Thoughts) = Len(before.Thoughts) + 1
                          /\ IsPrefix(before.Thoughts, after.Thoughts)
                          /\ after.Branches = before.Branches
                          /\ pc'[p] = "idle"
                          /\ result'[p].kind = "append"
          /\ (pc[p] \in {"set_lock", "set_store"} /\ Stepped(p)
                /\ args[p].op = "continue") =>
                 sessions'[args[p].SessionID] = sessions[args[p].SessionID]
      ]_vars

\* a call that gave reviseStep, createBranch = true, nextNeeded = false and an
\* estimate is about to commit on its second attempt: its copy has the thought
\* rewritten, and no new branch, no new thought, the Status and the estimate
\* that are stored
C34_Witness ==
    \E p \in DOMAIN pc :
        /\ pc[p] = "cas_commit"
        /\ args[p] = ContinueArg("s1", "c", <<FALSE>>, <<1>>, TRUE, 7)
        /\ runs[p] >= 2
        /\ oldVersion[p] = sessions["s1"].Version
        /\ updated[p] = [sessions["s1"] EXCEPT !.Thoughts[1].Content = "c",
                                               !.Thoughts[1].Revised = TRUE]
        /\ sessions["s1"].Status = "active"
        /\ sessions["s1"].EstimatedTotal = DefaultEstimate

Pending(p) == pc[p] \in {"cas_update", "cas_lock", "cas_commit"}

\* the version check of p's attempt would pass now
Unchanged(p) == sessions[args[p].SessionID].Version = oldVersion[p]

\* C36: the version check of an attempt passes right after the attempt's read;
\* between the read and the check it turns from passing to failing only with
\* a step of another goroutine that stores a new session under the same id
\* (the commit of a CompareAndSwap or a SetSession); and the attempt is given
\* up for a retry only when the check fails. So a call retries only after
\* another call stored under that id since its read.
C36_RetryAfterCommit ==
    [][\A p \in DOMAIN pc :
          /\ (pc[p] = "cas_read" /\ pc'[p] = "cas_update") => Unchanged(p)'
          /\ (Pending(p) /\ Pending(p)' /\ Unchanged(p) /\ ~Unchanged(p)') =>
                 \E q \in DOMAIN pc \ {p} :
                     /\ pc[q] \in {"cas_commit", "set_store"} /\ Stepped(q)
                     /\ sessions'[args[p].SessionID] # sessions[args[p].SessionID]
          /\ (pc[p] = "cas_commit" /\ pc'[p] = "cas_rlock") => ~Unchanged(p)
      ]_vars

\* a call has just given up an attempt and starts over, and another call on the
\* same id has returned with success
C36_Witness ==
    \E p \in DOMAIN pc :
        /\ pc[p] = "cas_rlock" /\ runs[p] >= 1
        /\ \E q \in DOMAIN pc \ {p} :
               /\ result[q].kind \in {"append", "revise", "branch"}
               /\ result[q].err = NoErr
               /\ result[q].id = args[p].SessionID

C38_StartReplaces ==
    [][\A p \in DOMAIN pc :
          /\ (pc[p] = "idle" /\ Stepped(p) /\ args'[p].op = "start") =>
                 pc'[p] = "set_lock"
          /\ (pc[p] = "set_store" /\ Stepped(p) /\ args[p].op = "start") =>
                 LET a == args[p]
                 IN  /\ DOMAIN sessions' = DOMAIN sessions \cup {a.SessionID}
                     /\ sessions'[a.SessionID] =
                            [ID |-> a.SessionID, Problem |-> a.Problem,
                             Thoughts |-> <<>>, CurrentThought |-> 0,
                             EstimatedTotal |-> IF a.EstimatedSteps = 0 THEN 5
                                                ELSE a.EstimatedSteps,
                             Status |-> "active", Branches |-> <<>>,
                             Version |-> 0]
                     /\ \A id \in DOMAIN sessions \ {a.SessionID} :
                            sessions'[id] = sessions[id]
                     /\ result'[p].kind = "start" /\ result'[p].err = NoErr
      ]_vars

\* s1 was stored with a thought and the problem P and had a branch registered;
\* a StartThinking on s1 has returned, and s1 is stored with the problem Q and
\* nothing else, next to the child of the branch
C38_Witness ==
    /\ sessions0["s1"].Problem = "P"
    /\ Len(sessions0["s1"].Thoughts) = 1
    /\ "s1_branch_1" \in DOMAIN sessions
    /\ \E p \in DOMAIN pc : result[p].kind = "start" /\ result[p].err = NoErr
    /\ \A p \in DOMAIN pc : pc[p] = "idle"
    /\ sessions["s1"].Problem = "Q"
    /\ sessions["s1"].Thoughts = <<>>
    /\ sessions["s1"].Branches = <<>>
    /\ sessions["s1"].Version = 0

C40_LocksReleased ==
    \A p \in DOMAIN pc :
        /\ p \in mu.r => pc[p] \in {"cas_read", "read"}
        /\ mu.w = p => pc[p] \in {"cas_commit", "set_store"}
        /\ pc[p] \in {"idle", "cas_rlock"} => ~Holding(p)

\* nobody holds a lock; one goroutine has returned from a CompareAndSwap with
\* the error of its transform, the other has lost a race and loops back
C40_Witness ==
    /\ mu.w = 0 /\ mu.r = {}
    /\ \E p \in DOMAIN pc : \E q \in DOMAIN pc :
           /\ pc[p] = "idle" /\ result[p] # NoResult
           /\ result[p].err = ErrInvalidStep
           /\ pc[q] = "cas_rlock" /\ runs[q] >= 1

====
